---- MODULE Spec2Model ----
(***************************************************************************)
(* A model of matterclient.go: the MMClient session (Login, the WsReceiver *)
(* loop, the message normalizer and the channel/user caches), the backend  *)
(* it talks to, and the consumer of MessageChan.                           *)
(*                                                                         *)
(* A Go string is a sequence of tokens (<<>> is ""); a token is the unit   *)
(* strings.Contains and strings.Split look for, so "u1__u2" is             *)
(* <<"u1", "__", "u2">>.  A Go pointer is a sequence of length at most one *)
(* (<<>> is nil).  A panic (nil dereference) ends the process: every       *)
(* thread's pc becomes "crashed".                                          *)
(***************************************************************************)
EXTENDS Integers, Sequences, FiniteSets, TLC

\* ------------------------------------------------------------- bounds
\* stream reads, failed ones included
MaxReads == 2
\* failed attempts (LoginByEmail and dial together) within one call of Login
MaxRetries == 2
\* changes of the server's user and channel lists
MaxSrvChanges == 1
\* frames the stream delivers in the back-pressure specification
MaxChanReads == 102
\* stream reads, failed ones included, beside the caller's commands
MaxCmdReads == 1
\* commands the caller calls
MaxCmds == 2
\* commands the caller calls while the stream is silent
MaxSeqCmds == 3

\* make(chan *Message, 100)
ChanCap == 100

\* ------------------------------------------------------------- values
None == <<>>
Some(x) == <<x>>

Str(tok) == <<tok>>
Sep == "__"

Threads == {"main", "recv"}

U1 == Str("u1")
U2 == Str("u2")
UserIds == {U1, U2}
UsernameOf(id) == IF id = U1 THEN Str("alice") ELSE Str("bob")
Profile(id) == [Id |-> id, Username |-> UsernameOf(id)]

C1id == Str("c1")
C2id == Str("c2")
ChanIds == {C1id, C2id}
\* c1 is a public channel, c2 the direct-message channel of u1 and u2
ChanNameOf(id) == IF id = C1id THEN Str("town") ELSE U1 \o Str(Sep) \o U2
ChanHeaderOf(id) == IF id = C1id THEN Str("welcome") ELSE <<>>
Channel(id) == [Id |-> id, Name |-> ChanNameOf(id), Header |-> ChanHeaderOf(id)]
ChanOrder == <<C1id, C2id>>

TeamName == Str("myteam")
SrvTeam == [Id |-> Str("t1"), Name |-> TeamName]

\* what LoginByEmail can answer with an error (model.AppError)
ErrRefused == [Message |-> Str("conn"), DetailedError |-> <<"dial tcp", "connection refused">>]
ErrGateway == [Message |-> Str("decode"), DetailedError |-> <<"invalid character", "<">>]
ErrPassword == [Message |-> Str("bad password"), DetailedError |-> <<>>]
ErrTeam == [Message |-> Str("no team"), DetailedError |-> <<"invalid", "team">>]
AppErrors == {ErrRefused, ErrGateway, ErrPassword, ErrTeam}

\* the frames the stream can deliver (model.Message as JSON)
Post(u, c, text) == [UserId |-> u, ChannelId |-> c, Message |-> text]
FramePosted(u, c, text) == [Action |-> "posted", post |-> Some(Post(u, c, text))]
FrameTyping == [Action |-> "typing", post |-> None]
Frames == {FramePosted(U2, C2id, Str("hi")), FramePosted(U1, C1id, Str("yo")), FrameTyping}
ChanFrames == {FrameTyping}
CmdFrames == {FramePosted(U2, C2id, Str("hi"))}

\* what the caller passes to the commands
JoinNames == {<<"#", "town">>, <<"#", "nowhere">>}
PostNames == {Str("town"), Str("nowhere")}
Texts == {Str("hello"), Str("bye")}
PostIds == {C1id, <<>>}

Min(S) == CHOOSE x \in S : \A y \in S : x <= y

\* the limits of a specification: how much its environment may do
Lim == [reads |-> MaxReads, readFails |-> MaxReads, retries |-> MaxRetries,
        frames |-> Frames]
ChanLim == [reads |-> MaxChanReads, readFails |-> 0, retries |-> 0, frames |-> ChanFrames]
CmdLim == [reads |-> MaxCmdReads, readFails |-> MaxCmdReads, retries |-> 0,
           frames |-> CmdFrames, cmds |-> MaxCmds]
SeqLim == [reads |-> 0, readFails |-> 0, retries |-> 0, frames |-> {}, cmds |-> MaxSeqCmds]

\* ------------------------------------------------------------- strings
\* strings.Contains(s, tok)
Contains(s, tok) == \E i \in 1..Len(s) : s[i] = tok

\* strings.Split(s, tok)
RECURSIVE Split(_, _)
Split(s, tok) ==
  LET idx == {i \in 1..Len(s) : s[i] = tok}
  IN IF idx = {} THEN <<s>>
     ELSE <<SubSeq(s, 1, Min(idx) - 1)>> \o Split(SubSeq(s, Min(idx) + 1, Len(s)), tok)

\* ------------------------------------------------------------- state
VARIABLES
  srv,          \* the backend: [users, where, changes, myId, posts]
  conns,        \* the websocket connections: [n: dialed so far, dead: handles that failed]
  m,            \* the MMClient struct
  MessageChan,  \* m.MessageChan, the buffered channel
  pc,           \* where each thread is
  lg,           \* the running (or last) call of Login: its locals and what it did
  rmsg,         \* WsReceiver's rmsg, the one model.Message every read decodes into
  msg,          \* WsReceiver's msg, the message being built
  rc,           \* what WsReceiver did: reads, pushes, the last read
  norm,         \* the running (or last) parseActionPost
  gcn,          \* the running (or last) GetChannelName
  taken,        \* the messages the consumer took from MessageChan, in order
  cmd           \* the caller's commands: the running (or last) one, and what they did

vars == <<srv, conns, m, MessageChan, pc, lg, rmsg, msg, rc, norm, gcn, taken, cmd>>

\* ------------------------------------------------------------- backend
\* GetProfiles: the team's profiles, keyed by user id
SrvProfiles == [id \in srv.users |-> Profile(id)]

RECURSIVE ListOf(_, _)
ListOf(order, where) ==
  IF order = <<>> THEN <<>>
  ELSE (IF srv.where[Head(order)] = where THEN <<Channel(Head(order))>> ELSE <<>>)
       \o ListOf(Tail(order), where)

\* GetChannels: the channels the user has joined
SrvChannels == ListOf(ChanOrder, "joined")
\* GetMoreChannels: the channels the user could join
SrvMoreChannels == ListOf(ChanOrder, "more")

\* the user LoginByEmail returns for the credentials
SrvMe == [Id |-> srv.myId, TeamId |-> SrvTeam.Id]

\* the server's states: u2 comes and goes; the public channel c1 is joined or not,
\* the direct-message channel c2 is there (and joined) or not
Where(w1, w2) == [c \in ChanIds |-> IF c = C1id THEN w1 ELSE w2]
SrvUsers == {{U1}, {U1, U2}}
SrvWhere == {Where(w1, w2) : w1 \in {"joined", "more"}, w2 \in {"joined", "none"}}

\* where a thread is about to ask the backend for its users or its channels
FetchPoints == {"login_users", "login_channels", "login_more", "build", "gcn_channels",
                "gcn_more", "cmd_channels", "cmd_more"}

\* a user appears or disappears, or a channel moves between the lists.  The client
\* sees the server's lists only in what its fetches return, so the model lets the
\* server change only when a fetch is the next step of a thread
SrvChange ==
  /\ srv.changes < MaxSrvChanges
  /\ \E t \in Threads : pc[t] \in FetchPoints
  /\ \E s \in [users : SrvUsers, where : SrvWhere] :
       /\ \/ s.where = srv.where /\ s.users # srv.users
          \/ s.users = srv.users /\ Cardinality({c \in ChanIds : s.where[c] # srv.where[c]}) = 1
       /\ srv' = [srv EXCEPT !.users = s.users, !.where = s.where, !.changes = @ + 1]
  /\ UNCHANGED <<conns, m, MessageChan, pc, lg, rmsg, msg, rc, norm, gcn, taken, cmd>>

\* ------------------------------------------------------------- New
ZeroMessage == [Action |-> "", post |-> None, seq |-> 0]
NoMsg == [Raw |-> None, Post |-> None, Team |-> <<>>, Channel |-> <<>>, Username |-> <<>>,
          Text |-> <<>>, frame |-> 0]
NoLogin == [caller |-> "none", status |-> "none", b |-> 0, tries |-> 0, fails |-> 0,
            dtries |-> 0, dfails |-> 0, sleeps |-> 0, appErr |-> None, ret |-> <<>>,
            epoch |-> 0, before |-> None]

NoPost == [data |-> None, hit |-> FALSE, refreshes |-> 0]
NoCall == [id |-> <<>>, hit |-> FALSE, refreshes |-> 0, result |-> <<>>, status |-> "none"]

\* no command yet: none started, no lookup made, no request sent, nothing posted,
\* UpdateChannels not called
NoLook == [name |-> <<>>, seen |-> 0, half |-> FALSE]
NoCmd == [n |-> 0, op |-> "none", arg |-> <<>>, text |-> <<>>, look |-> NoLook,
          want |-> <<>>, sent |-> <<>>, ret |-> "none", got |-> None, posted |-> None,
          before |-> None, refreshed |-> None, since |-> 0, started |-> 0]

New == [Client |-> None, WsClient |-> 0, Channels |-> None, MoreChannels |-> None,
        User |-> None, Users |-> <<>>, Team |-> None]

InitWith(srvs) ==
  /\ srv \in srvs
  /\ conns = [n |-> 0, dead |-> {}]
  /\ m = New
  /\ MessageChan = <<>>
  /\ pc = [t \in Threads |-> IF t = "main" THEN "login" ELSE "idle"]
  /\ lg = NoLogin
  /\ rmsg = ZeroMessage
  /\ msg = NoMsg
  /\ rc = [reads |-> 0, fails |-> 0, built |-> 0, pushed |-> 0, last |-> "none",
           logins |-> 0, dials |-> 0, lastConn |-> 0]
  /\ norm = NoPost
  /\ gcn = NoCall
  /\ taken = <<>>
  /\ cmd = NoCmd

Init ==
  InitWith([users : SrvUsers, where : SrvWhere, changes : {0}, myId : UserIds, posts : {{}}])

Crashed == [t \in Threads |-> "crashed"]

\* ------------------------------------------------------------- Login
\* backoff.Backoff: Duration() counts the attempt, Reset() forgets them
Duration(b) == b + 1
\* a Reset that forgets nothing
ResetKeeps(b) == b
Reset(b) == 0

\* a classification that takes any "invalid ..." detail for a garbled answer
IsTransientLoose(detail) ==
  \/ Contains(detail, "connection refused")
  \/ \E i \in 1..Len(detail) : detail[i] \in {"invalid", "invalid character"}

\* the errors Login retries after: a refused connection, a garbled answer
IsTransient(detail) ==
  Contains(detail, "connection refused") \/ Contains(detail, "invalid character")

\* Login returns to its caller: the program's start-up goes on to start WsReceiver
\* after a first Login that succeeded; WsReceiver ignores what Login returns and
\* goes on to build a message
LoginReturn(t, ok) ==
  IF t = "main"
  THEN [pc EXCEPT !["main"] = IF ok THEN "logged_in" ELSE "failed"]
  ELSE [pc EXCEPT ![t] = "build"]

\* a Login that forgets who was logged in before it asks again
NewClientForgets(mm) == [mm EXCEPT !.Client = Some([AuthToken |-> <<>>]), !.User = None]

\* m.Client = model.NewClient(...): a REST client without a token
NewClient(mm) == [mm EXCEPT !.Client = Some([AuthToken |-> <<>>])]

\* a fresh backoff and a fresh, unauthenticated REST client
LoginStart(t) ==
  /\ pc[t] = "login"
  /\ lg' = [NoLogin EXCEPT !.caller = t, !.status = "running", !.before = Some(m)]
  /\ m' = NewClient(m)
  /\ pc' = [pc EXCEPT ![t] = "login_by_email"]
  /\ rc' = [rc EXCEPT !.logins = IF t = "recv" THEN @ + 1 ELSE @]
  /\ UNCHANGED <<srv, conns, MessageChan, rmsg, msg, norm, gcn, taken, cmd>>

\* one turn of the login loop: LoginByEmail and what follows its answer
LoginByEmail(L, t) ==
  /\ pc[t] = "login_by_email"
  /\ \E o \in {None} \cup {Some(e) : e \in AppErrors} :
       IF o = None
       THEN /\ lg' = [lg EXCEPT !.tries = @ + 1, !.b = Reset(@), !.appErr = None]
            /\ m' = [m EXCEPT !.Client = Some([AuthToken |-> Str("token")]),
                              !.User = Some(SrvMe)]
            /\ pc' = [pc EXCEPT ![t] = "get_my_team"]
       ELSE IF ~IsTransient(o[1].DetailedError)
       THEN /\ lg' = [lg EXCEPT !.tries = @ + 1, !.b = Duration(@), !.appErr = o,
                                !.status = "err", !.ret = o[1].Message]
            /\ m' = m
            /\ pc' = LoginReturn(t, FALSE)
       ELSE /\ lg.fails + lg.dfails < L.retries
            /\ lg' = [lg EXCEPT !.tries = @ + 1, !.b = Duration(@), !.appErr = o,
                                !.fails = @ + 1, !.sleeps = @ + 1]
            /\ m' = m
            /\ pc' = pc
  /\ UNCHANGED <<srv, conns, MessageChan, rmsg, msg, rc, norm, gcn, taken, cmd>>

\* GetMyTeam's answer is dereferenced unchecked
GetMyTeam(t) ==
  /\ pc[t] = "get_my_team"
  /\ \E ok \in BOOLEAN :
       IF ok
       THEN /\ m' = [m EXCEPT !.Team = Some(SrvTeam)]
            /\ pc' = [pc EXCEPT ![t] = "dial"]
       ELSE /\ m' = m
            /\ pc' = Crashed
  /\ UNCHANGED <<srv, conns, MessageChan, lg, rmsg, msg, rc, norm, gcn, taken, cmd>>

\* one turn of the dial loop
Dial(L, t) ==
  /\ pc[t] = "dial"
  /\ \E ok \in BOOLEAN :
       IF ok
       THEN /\ conns' = [conns EXCEPT !.n = @ + 1]
            /\ lg' = [lg EXCEPT !.dtries = @ + 1, !.b = Reset(@)]
            /\ m' = [m EXCEPT !.WsClient = conns.n + 1]
            /\ pc' = [pc EXCEPT ![t] = "login_users"]
            /\ rc' = [rc EXCEPT !.dials = IF t = "recv" THEN @ + 1 ELSE @]
       ELSE /\ lg.fails + lg.dfails < L.retries
            /\ lg' = [lg EXCEPT !.dtries = @ + 1, !.dfails = @ + 1, !.b = Duration(@),
                                !.sleeps = @ + 1]
            /\ UNCHANGED <<conns, m, pc, rc>>
  /\ UNCHANGED <<srv, MessageChan, rmsg, msg, norm, gcn, taken, cmd>>

\* ------------------------------------------------------------- caches
\* a refresh that merges the answer into the map it has
SetUsersMerged(mm, data) ==
  [mm EXCEPT !.Users = [id \in DOMAIN mm.Users \cup DOMAIN data |->
                          IF id \in DOMAIN data THEN data[id] ELSE mm.Users[id]]]

\* m.Users = mmusers.Data
SetUsers(mm, data) == [mm EXCEPT !.Users = data]
UpdateUsers(mm) == SetUsers(mm, SrvProfiles)

\* m.Channels = mmchannels.Data
SetChannels(mm, data) == [mm EXCEPT !.Channels = Some(data)]

\* a refresh that adds what it fetched to what the cache held
SetMoreChannelsAdds(mm, data) ==
  [mm EXCEPT !.MoreChannels = IF @ = None THEN Some(data) ELSE Some(@[1] \o data)]

\* m.MoreChannels = mmchannels.Data
SetMoreChannels(mm, data) == [mm EXCEPT !.MoreChannels = Some(data)]

\* Login populates the users
LoginUpdateUsers(t) ==
  /\ pc[t] = "login_users"
  /\ \E ok \in BOOLEAN :
       IF ok
       THEN /\ m' = UpdateUsers(m)
            /\ lg' = [lg EXCEPT !.epoch = srv.changes]
            /\ pc' = [pc EXCEPT ![t] = "login_channels"]
       ELSE /\ UNCHANGED <<m, lg>>
            /\ pc' = Crashed
  /\ UNCHANGED <<srv, conns, MessageChan, rmsg, msg, rc, norm, gcn, taken, cmd>>

\* UpdateChannels, first half: the joined channels, in Login or in GetChannelName
UpdateChannels1(t) ==
  /\ pc[t] \in {"login_channels", "gcn_channels", "cmd_channels"}
  /\ \E ok \in BOOLEAN :
       IF ok
       THEN /\ m' = SetChannels(m, SrvChannels)
            /\ pc' = [pc EXCEPT ![t] = IF @ = "login_channels" THEN "login_more"
                                      ELSE IF @ = "gcn_channels" THEN "gcn_more"
                                      ELSE "cmd_more"]
       ELSE /\ m' = m
            /\ pc' = Crashed
  /\ UNCHANGED <<srv, conns, MessageChan, lg, rmsg, msg, rc, norm, gcn, taken, cmd>>

\* UpdateChannels, second half: the other channels; in Login, Login then returns nil
UpdateChannels2(t) ==
  /\ pc[t] \in {"login_more", "gcn_more", "cmd_more"}
  /\ \E ok \in BOOLEAN :
       IF ~ok
       THEN /\ UNCHANGED <<m, lg, cmd>>
            /\ pc' = Crashed
       ELSE /\ m' = SetMoreChannels(m, SrvMoreChannels)
            /\ IF pc[t] = "login_more"
               THEN /\ lg' = [lg EXCEPT !.status = "nil"]
                    /\ pc' = LoginReturn(t, TRUE)
                    /\ cmd' = cmd
               ELSE IF pc[t] = "gcn_more"
               THEN /\ lg' = lg
                    /\ pc' = [pc EXCEPT ![t] = "gcn_rescan"]
                    /\ cmd' = cmd
               ELSE /\ lg' = lg
                    /\ pc' = [pc EXCEPT ![t] = "running"]
                    /\ cmd' = [cmd EXCEPT !.ret = "done",
                                          !.before = cmd.refreshed,
                                          !.refreshed = Some(<<m'.Channels, m'.MoreChannels>>)]
  /\ UNCHANGED <<srv, conns, MessageChan, rmsg, msg, rc, norm, gcn, taken>>

\* ------------------------------------------------------------- WsReceiver
\* json decoding into the one rmsg: the fields the frame has are overwritten, and
\* the Props map keeps the entries the frame does not have
Decode(old, f, seq) ==
  [Action |-> f.Action, post |-> IF f.post = None THEN old.post ELSE f.post, seq |-> seq]

\* WsReceiver starts, once the first Login has returned nil; Login's locals are gone
WsReceiver ==
  /\ pc["main"] = "logged_in"
  /\ pc["recv"] = "idle"
  /\ pc' = [pc EXCEPT !["main"] = "running", !["recv"] = "read"]
  /\ lg' = NoLogin
  /\ UNCHANGED <<srv, conns, m, MessageChan, rmsg, msg, rc, norm, gcn, taken, cmd>>

\* m.WsClient.ReadJSON(&rmsg); a failed read is followed by m.Login().  A read
\* fails because the connection dropped: nothing is decoded, rmsg keeps what it
\* held, and every later read on that handle fails too
ReadJSON(L) ==
  /\ pc["recv"] = "read"
  /\ \E o \in {None} \cup {Some(f) : f \in L.frames} :
       IF o # None
       THEN /\ m.WsClient \notin conns.dead
            /\ rc.reads + rc.fails < L.reads
            /\ rmsg' = Decode(rmsg, o[1], rc.reads + 1)
            /\ rc' = [rc EXCEPT !.reads = @ + 1, !.last = "ok", !.logins = 0, !.dials = 0,
                                !.lastConn = m.WsClient]
            /\ pc' = [pc EXCEPT !["recv"] = "build"]
            /\ conns' = conns
       ELSE /\ rc.reads + rc.fails < L.reads
            /\ rc.fails < L.readFails
            /\ rmsg' = rmsg
            /\ rc' = [rc EXCEPT !.fails = @ + 1, !.last = "fail", !.logins = 0, !.dials = 0,
                                !.lastConn = m.WsClient]
            /\ pc' = [pc EXCEPT !["recv"] = "login"]
            /\ conns' = [conns EXCEPT !.dead = @ \cup {m.WsClient}]
  /\ UNCHANGED <<srv, m, MessageChan, lg, msg, norm, gcn, taken, cmd>>

\* msg := &Message{Raw: &rmsg, Team: m.Credentials.Team}
NewMessage == [NoMsg EXCEPT !.Raw = Some("rmsg"), !.Team = TeamName, !.frame = rmsg.seq]

\* model.PostFromJson of the frame's "post" property: nil when there is none
PostFromJson(post) == post

\* a refresh for every post
NeedUsersAlways(mm, uid) == TRUE

\* if m.Users[data.UserId] == nil
NeedUsers(mm, uid) == uid \notin DOMAIN mm.Users

\* whether a cache holds a channel with this id
InCaches(mm, id) ==
  \/ \E i \in 1..Len(mm.Channels[1]) : mm.Channels[1][i].Id = id
  \/ \E i \in 1..Len(mm.MoreChannels[1]) : mm.MoreChannels[1][i].Id = id

\* a dispatch that takes every frame with an action for a post
IsAnyAction(action) == action # ""

\* case model.ACTION_POSTED
IsPosted(action) == action = "posted"

\* the message is built and parseMessage dispatches on the action; for a post,
\* parseActionPost up to its call of GetChannelName
parseMessage ==
  /\ pc["recv"] = "build"
  /\ rc' = [rc EXCEPT !.built = @ + 1]
  /\ lg' = NoLogin
  /\ IF ~IsPosted(rmsg.Action)
     THEN /\ msg' = NewMessage
          /\ pc' = [pc EXCEPT !["recv"] = "push"]
          /\ UNCHANGED <<m, norm, gcn>>
     ELSE LET data == PostFromJson(rmsg.post) IN
          IF data = None
          THEN /\ pc' = Crashed
               /\ msg' = NewMessage
               /\ UNCHANGED <<m, norm, gcn>>
          ELSE LET miss == NeedUsers(m, data[1].UserId)
                   hit == data[1].UserId \in DOMAIN m.Users IN
               \E ok \in {TRUE} \cup {~miss} :
                 LET m1 == IF miss THEN UpdateUsers(m) ELSE m IN
                 IF ~ok \/ data[1].UserId \notin DOMAIN m1.Users
                 THEN /\ pc' = Crashed
                      /\ msg' = NewMessage
                      /\ m' = IF ok THEN m1 ELSE m
                      /\ UNCHANGED <<norm, gcn>>
                 ELSE /\ m' = m1
                      /\ msg' = [NewMessage EXCEPT !.Username = m1.Users[data[1].UserId].Username]
                      /\ norm' = [data |-> data, hit |-> hit,
                                  refreshes |-> IF miss THEN 1 ELSE 0]
                      /\ gcn' = [NoCall EXCEPT !.id = data[1].ChannelId, !.status = "called",
                                                !.hit = InCaches(m1, data[1].ChannelId)]
                      /\ pc' = [pc EXCEPT !["recv"] = "get_channel_name"]
  /\ UNCHANGED <<srv, conns, MessageChan, rmsg, taken, cmd>>

\* a scan that forgets the channels not joined
AllChannelsJoined(mm) == mm.Channels[1]

\* append(m.Channels.Channels, m.MoreChannels.Channels...)
AllChannels(mm) == mm.Channels[1] \o mm.MoreChannels[1]

\* the name of the first channel of the list with this id, if any
ScanName(chs, id) ==
  LET hits == {i \in 1..Len(chs) : chs[i].Id = id}
  IN IF hits = {} THEN None ELSE Some(chs[Min(hits)].Name)

\* a direct-message channel shown as its first user, whoever m.User is
DirectUserFirst(mm, name) == Split(name, Sep)[1]

\* the user a direct-message channel is shown as: the one who is not m.User
DirectUser(mm, name) ==
  LET rcvusers == Split(name, Sep)
  IN IF rcvusers[1] # mm.User[1].Id THEN rcvusers[1] ELSE rcvusers[2]

\* GetChannelName returns name; in WsReceiver parseActionPost goes on from there
ReturnName(t, name) ==
  /\ gcn' = [gcn EXCEPT !.result = name, !.status = "returned"]
  /\ IF Contains(name, Sep) /\ DirectUser(m, name) \notin DOMAIN m.Users
     THEN /\ pc' = Crashed
          /\ msg' = msg
     ELSE /\ msg' = [msg EXCEPT !.Channel = IF Contains(name, Sep)
                                            THEN m.Users[DirectUser(m, name)].Username
                                            ELSE name,
                                !.Text = norm.data[1].Message,
                                !.Post = norm.data]
          /\ pc' = [pc EXCEPT ![t] = "push"]

\* GetChannelName, the first scan of both caches
GetChannelName(t) ==
  /\ pc[t] = "get_channel_name"
  /\ LET r == ScanName(AllChannels(m), gcn.id) IN
       IF r # None
       THEN ReturnName(t, r[1])
       ELSE /\ gcn' = [gcn EXCEPT !.refreshes = @ + 1]
            /\ pc' = [pc EXCEPT ![t] = "gcn_channels"]
            /\ msg' = msg
  /\ UNCHANGED <<srv, conns, m, MessageChan, lg, rmsg, rc, norm, taken, cmd>>

\* GetChannelName, the scan after UpdateChannels
GetChannelNameAgain(t) ==
  /\ pc[t] = "gcn_rescan"
  /\ LET r == ScanName(AllChannels(m), gcn.id) IN
       ReturnName(t, IF r # None THEN r[1] ELSE <<>>)
  /\ UNCHANGED <<srv, conns, m, MessageChan, lg, rmsg, rc, norm, taken, cmd>>

\* a channel with room for one message more than its capacity
CanSendOneMore(ch) == Len(ch) <= ChanCap

\* a send on the buffered channel goes through when there is room
CanSend(ch) == Len(ch) < ChanCap

\* m.MessageChan <- msg
Push ==
  /\ pc["recv"] = "push"
  /\ CanSend(MessageChan)
  /\ MessageChan' = Append(MessageChan, msg)
  /\ rc' = [rc EXCEPT !.pushed = @ + 1]
  /\ pc' = [pc EXCEPT !["recv"] = "read"]
  /\ msg' = NoMsg
  /\ norm' = NoPost
  /\ gcn' = NoCall
  /\ UNCHANGED <<srv, conns, m, lg, rmsg, taken, cmd>>

\* the consumer receives from m.MessageChan
Take ==
  /\ pc["main"] = "running"
  /\ MessageChan # <<>>
  /\ taken' = Append(taken, Head(MessageChan))
  /\ MessageChan' = Tail(MessageChan)
  /\ UNCHANGED <<srv, conns, m, pc, lg, rmsg, msg, rc, norm, gcn, cmd>>

\* ------------------------------------------------------------- the commands
\* strings.Replace(channel, "#", "", 1)
StripHash(channel) ==
  LET idx == {i \in 1..Len(channel) : channel[i] = "#"}
  IN IF idx = {} THEN channel
     ELSE SubSeq(channel, 1, Min(idx) - 1) \o SubSeq(channel, Min(idx) + 1, Len(channel))

\* a lookup that scans the joined channels only
GetChannelIdJoined(mm, name) ==
  LET chs == mm.Channels[1]
      hits == {i \in 1..Len(chs) : chs[i].Name = name}
  IN IF hits = {} THEN <<>> ELSE chs[Min(hits)].Id

\* GetChannelId: the id of the first channel of both caches with this name, or ""
GetChannelId(mm, name) ==
  LET chs == AllChannels(mm)
      hits == {i \in 1..Len(chs) : chs[i].Name = name}
  IN IF hits = {} THEN <<>> ELSE chs[Min(hits)].Id

\* what a lookup by name had before it: how many of the two caches hold the name,
\* and whether the receiver loop was between the two assignments of UpdateChannels
Look(name) ==
  [name |-> name,
   seen |-> Cardinality({k \in {"Channels", "MoreChannels"} :
                          \E i \in 1..Len(m[k][1]) : m[k][1][i].Name = name}),
   half |-> pc["recv"] \in {"login_more", "gcn_more"}]

\* a command of the caller begins; what the last PostMessage posted is remembered,
\* and what UpdateChannels left only when the commands are one after the other
Begin(op, arg) ==
  [NoCmd EXCEPT !.n = cmd.n + 1, !.op = op, !.arg = arg, !.posted = cmd.posted,
                !.refreshed = IF op = "UpdateChannels" THEN cmd.refreshed ELSE None,
                !.since = IF op = "UpdateChannels" THEN cmd.started ELSE 0,
                !.started = srv.changes]

\* a request of the REST client: it carries the token the client has
Request(kind, id, text) ==
  [kind |-> kind, id |-> id, text |-> text, token |-> m.Client[1].AuthToken]

\* the backend takes a request that is authenticated and names a channel it has
Allowed(r) == r.token # <<>> /\ r.id \in ChanIds /\ srv.where[r.id] # "none"

\* JoinChannel up to its test: the first GetChannelId
JoinChannel(L) ==
  /\ pc["main"] = "running"
  /\ cmd.n < L.cmds
  /\ \E channel \in JoinNames :
       LET name == StripHash(channel)
       IN /\ cmd' = [Begin("JoinChannel", channel) EXCEPT
                      !.look = Look(name),
                      !.ret = IF GetChannelId(m, name) = <<>> THEN "failed to join"
                              ELSE "none"]
          /\ pc' = [pc EXCEPT !["main"] = IF GetChannelId(m, name) = <<>> THEN "running"
                                          ELSE "join_call"]
  /\ UNCHANGED <<srv, conns, m, MessageChan, lg, rmsg, msg, rc, norm, gcn, taken>>

\* m.Client.JoinChannel(m.GetChannelId(...)): the second GetChannelId and the call
JoinChannelCall ==
  /\ pc["main"] = "join_call"
  /\ LET r == Request("join", GetChannelId(m, StripHash(cmd.arg)), <<>>)
     IN \E ok \in BOOLEAN :
          /\ cmd' = [cmd EXCEPT !.look = Look(StripHash(cmd.arg)),
                                !.sent = Append(@, r),
                                !.ret = IF ok /\ Allowed(r) THEN "nil" ELSE "failed to join"]
          /\ srv' = IF ok /\ Allowed(r)
                    THEN [srv EXCEPT !.where[r.id] = "joined"]
                    ELSE srv
  /\ pc' = [pc EXCEPT !["main"] = "running"]
  /\ UNCHANGED <<conns, m, MessageChan, lg, rmsg, msg, rc, norm, gcn, taken>>

\* PostMessage: the post is built with GetChannelId(channel) and sent; what
\* CreatePost answers is dropped
PostMessage(L) ==
  /\ pc["main"] = "running"
  /\ cmd.n < L.cmds
  /\ \E channel \in PostNames, text \in Texts, ok \in BOOLEAN :
       LET r == Request("post", GetChannelId(m, channel), text)
           ids == {c \in ChanIds : InCaches(m, c) /\ ChanNameOf(c) = channel}
       IN /\ cmd' = [Begin("PostMessage", channel) EXCEPT
                      !.text = text,
                      !.look = Look(channel),
                      !.want = IF ids = {} THEN <<>> ELSE CHOOSE c \in ids : TRUE,
                      !.sent = <<r>>,
                      !.ret = "done",
                      !.posted = Some([id |-> r.id, text |-> text,
                                       accepted |-> ok /\ Allowed(r)])]
          /\ srv' = IF ok /\ Allowed(r)
                    THEN [srv EXCEPT !.posts = @ \cup {[ChannelId |-> r.id, Message |-> text]}]
                    ELSE srv
  /\ UNCHANGED <<conns, m, MessageChan, pc, lg, rmsg, msg, rc, norm, gcn, taken>>

\* GetPosts: the posts of the channel, or nil when the backend answers an error
GetPosts(L) ==
  /\ pc["main"] = "running"
  /\ cmd.n < L.cmds
  /\ \E channelId \in PostIds, ok \in BOOLEAN :
       LET r == Request("posts", channelId, <<>>)
       IN cmd' = [Begin("GetPosts", channelId) EXCEPT
                   !.sent = <<r>>,
                   !.ret = "done",
                   !.got = IF ok /\ Allowed(r)
                           THEN Some({p.Message : p \in {q \in srv.posts :
                                                          q.ChannelId = channelId}})
                           ELSE None]
  /\ UNCHANGED <<srv, conns, m, MessageChan, pc, lg, rmsg, msg, rc, norm, gcn, taken>>

\* the caller calls UpdateChannels
UpdateChannels(L) ==
  /\ pc["main"] = "running"
  /\ cmd.n < L.cmds
  /\ cmd' = Begin("UpdateChannels", <<>>)
  /\ pc' = [pc EXCEPT !["main"] = "cmd_channels"]
  /\ UNCHANGED <<srv, conns, m, MessageChan, lg, rmsg, msg, rc, norm, gcn, taken>>

\* ------------------------------------------------------------- specifications
Next ==
  \/ \E t \in Threads :
       \/ LoginStart(t)
       \/ LoginByEmail(Lim, t)
       \/ GetMyTeam(t)
       \/ Dial(Lim, t)
       \/ LoginUpdateUsers(t)
       \/ UpdateChannels1(t)
       \/ UpdateChannels2(t)
       \/ GetChannelName(t)
       \/ GetChannelNameAgain(t)
  \/ WsReceiver
  \/ ReadJSON(Lim)
  \/ parseMessage
  \/ Push
  \/ Take
  \/ SrvChange

Spec == Init /\ [][Next]_vars

\* back-pressure: a server that does not change, a stream of MaxChanReads frames
\* that are not posts, and a consumer that takes when it likes
InitChan ==
  InitWith([users : {{U1, U2}}, where : {Where("joined", "joined")}, changes : {0},
            myId : {U1}, posts : {{}}])

NextChan ==
  \/ \E t \in Threads :
       \/ LoginStart(t)
       \/ LoginByEmail(ChanLim, t)
       \/ GetMyTeam(t)
       \/ Dial(ChanLim, t)
       \/ LoginUpdateUsers(t)
       \/ UpdateChannels1(t)
       \/ UpdateChannels2(t)
  \/ WsReceiver
  \/ ReadJSON(ChanLim)
  \/ parseMessage
  \/ Push
  \/ Take

SpecChan == InitChan /\ [][NextChan]_vars

\* the caller's commands beside the receiver loop: MaxCmds commands, a stream of
\* MaxCmdReads reads
InitCmd ==
  InitWith([users : {{U1, U2}}, where : SrvWhere, changes : {0}, myId : {U1},
            posts : {{}}])

NextCmd ==
  \/ \E t \in Threads :
       \/ LoginStart(t)
       \/ LoginByEmail(CmdLim, t)
       \/ GetMyTeam(t)
       \/ Dial(CmdLim, t)
       \/ LoginUpdateUsers(t)
       \/ UpdateChannels1(t)
       \/ UpdateChannels2(t)
       \/ GetChannelName(t)
       \/ GetChannelNameAgain(t)
  \/ WsReceiver
  \/ ReadJSON(CmdLim)
  \/ parseMessage
  \/ Push
  \/ Take
  \/ SrvChange
  \/ JoinChannel(CmdLim)
  \/ JoinChannelCall
  \/ PostMessage(CmdLim)
  \/ GetPosts(CmdLim)
  \/ UpdateChannels(CmdLim)

SpecCmd == InitCmd /\ [][NextCmd]_vars

\* the caller's commands one after the other while the stream is silent: the
\* receiver loop waits in its read
NextSeq ==
  \/ \E t \in Threads :
       \/ LoginStart(t)
       \/ LoginByEmail(SeqLim, t)
       \/ GetMyTeam(t)
       \/ Dial(SeqLim, t)
       \/ LoginUpdateUsers(t)
       \/ UpdateChannels1(t)
       \/ UpdateChannels2(t)
  \/ WsReceiver
  \/ SrvChange
  \/ JoinChannel(SeqLim)
  \/ JoinChannelCall
  \/ PostMessage(SeqLim)
  \/ GetPosts(SeqLim)
  \/ UpdateChannels(SeqLim)

SpecSeq == InitCmd /\ [][NextSeq]_vars

\* ------------------------------------------------------------- claims
\* every message that was pushed, in the order of the pushes
Pushed == taken \o MessageChan
\* whether parseActionPost has run to its end for the message about to be pushed
Normalized == pc["recv"] = "push" /\ norm.data # None
\* whether GetChannelName has just returned
Returned == gcn.status = "returned"
\* the ids of the channels in the caches
CachedIds ==
  {m.Channels[1][i].Id : i \in 1..Len(m.Channels[1])}
    \cup {m.MoreChannels[1][i].Id : i \in 1..Len(m.MoreChannels[1])}

\* C1: between two iterations of WsReceiver, as many messages were pushed as reads
\* succeeded: a failed read pushes nothing.
C1_FailedReadPushesNothing == pc["recv"] = "read" => rc.pushed = rc.reads

\* C2: when WsReceiver comes to read again after a failed read, it has called Login
\* once, and that call ran one login campaign and then one dial campaign.
C2_OneReloginOneDial ==
  (pc["recv"] = "read" /\ rc.last = "fail") => (rc.logins = 1 /\ rc.dials = 1)

\* C3: the messages pushed (and so the messages taken) are built from the frames
\* read, in the order of the reads, each frame once.
C3_FramesInOrderOnce == \A i \in 1..Len(Pushed) : Pushed[i].frame = i

\* C4: MessageChan holds at most ChanCap messages; when it is full WsReceiver, at
\* its push, can neither push nor read; and every message built is in the channel,
\* taken, or about to be pushed.
C4_BackPressure ==
  /\ Len(MessageChan) <= ChanCap
  /\ (pc["recv"] = "push" /\ Len(MessageChan) = ChanCap) => ~ENABLED (Push \/ ReadJSON(ChanLim))
  /\ \A i \in 1..Len(Pushed) : Pushed[i].frame = i
  /\ rc.built = Len(Pushed) + (IF pc["recv"] = "push" THEN 1 ELSE 0)

C4_Witness == pc["recv"] = "push" /\ Len(MessageChan) = ChanCap /\ taken # <<>>

\* C5: Login retries after every transient failure; when it returns nil it has had
\* exactly one LoginByEmail success and one dial success, after failures it slept
\* for each; the backoff counter is zero when the dial campaign starts and zero
\* when Login returns nil.
C5_RetryUntilSuccess ==
  /\ (lg.status = "running" /\ lg.appErr # None) =>
        /\ lg.appErr[1] \in {ErrRefused, ErrGateway}
        /\ pc[lg.caller] = "login_by_email"
  /\ (lg.status = "running" /\ pc[lg.caller] = "dial" /\ lg.dtries = 0) => lg.b = 0
  /\ lg.status = "nil" =>
        /\ lg.b = 0
        /\ lg.tries = lg.fails + 1
        /\ lg.dtries = lg.dfails + 1
        /\ lg.sleeps = lg.fails + lg.dfails

C5_Witness == lg.status = "nil" /\ lg.fails >= 1 /\ lg.dfails >= 1

\* C6: a LoginByEmail error that is not transient ends Login at once: Login returns
\* the backend's message, has slept only for the transient failures before it, and
\* makes no further login attempt and no dial attempt.
C6_RejectedAtOnce ==
  /\ (lg.appErr # None /\ lg.appErr[1] \in {ErrPassword, ErrTeam}) => lg.status = "err"
  /\ lg.status = "err" =>
        /\ lg.appErr # None
        /\ lg.appErr[1] \in {ErrPassword, ErrTeam}
        /\ lg.ret = lg.appErr[1].Message
        /\ lg.tries = lg.fails + 1
        /\ lg.sleeps = lg.fails
        /\ lg.dtries = 0

C6_Witness == lg.status = "err" /\ lg.appErr = Some(ErrTeam) /\ lg.caller = "recv"

\* C7: when Login has returned nil and the server did not change since Login
\* fetched the users, the identity, the team and the stream handle are this
\* login's, and the user map and both channel caches are the server's lists.
C7_LoginPopulates ==
  (lg.status = "nil" /\ srv.changes = lg.epoch) =>
     /\ m.User = Some(SrvMe)
     /\ m.Team = Some(SrvTeam)
     /\ m.WsClient = conns.n
     /\ m.WsClient \notin conns.dead
     /\ m.Users = SrvProfiles
     /\ m.Channels = Some(SrvChannels)
     /\ m.MoreChannels = Some(SrvMoreChannels)

C7_Witness ==
  /\ lg.status = "nil" /\ lg.caller = "recv"
  /\ srv.changes = lg.epoch /\ srv.changes >= 1
  /\ srv.users = {U1}

\* C8: normalizing a post refreshes the users not at all when the post's user was in
\* the map and exactly once when it was not, and the Username is that user's.
C8_OneUserRefresh ==
  Normalized =>
     /\ norm.refreshes = (IF norm.hit THEN 0 ELSE 1)
     /\ msg.Username = UsernameOf(norm.data[1].UserId)

C8_Witness == Normalized /\ ~norm.hit /\ norm.refreshes = 1

\* C9: a post in the channel named A__B is shown in the channel named after B when
\* the session user is A and after A when the session user is B.
C9_DirectMessage ==
  \A a, b \in UserIds :
     (Normalized /\ Returned /\ gcn.result = a \o Str(Sep) \o b) =>
        /\ m.User[1].Id = a => msg.Channel = UsernameOf(b)
        /\ m.User[1].Id = b => msg.Channel = UsernameOf(a)

C9_Witness ==
  /\ Normalized /\ Returned /\ gcn.result = U1 \o Str(Sep) \o U2
  /\ m.User[1].Id = U2 /\ msg.Channel = UsernameOf(U1)

\* C10: GetChannelName refreshes the channels at most once, and only when the id
\* was in neither cache; it returns the name of the channel when the id is in a
\* cache, and "" when after the refresh it is in neither.
C10_GetChannelName ==
  Returned =>
     /\ gcn.refreshes = (IF gcn.hit THEN 0 ELSE 1)
     /\ gcn.id \in CachedIds => gcn.result = ChanNameOf(gcn.id)
     /\ gcn.id \notin CachedIds => gcn.result = <<>>

C10_Witness == Returned /\ ~gcn.hit /\ gcn.refreshes = 1 /\ gcn.result = Str("town")

\* C11: a lookup of the caller that runs while the receiver loop is inside
\* UpdateChannels never has one cache refreshed and the other stale before it:
\* the channel c1, which the server always has on one of its two lists, is found
\* in exactly one cache, not in both and not in neither
C11_AtomicRefresh ==
  (cmd.look.half /\ cmd.look.name = ChanNameOf(C1id)) => cmd.look.seen = 1

\* C12: JoinChannel sends no join request for a channel that does not resolve:
\* whatever the receiver loop does to the caches meanwhile, no join request of
\* JoinChannel carries the empty id
C12_NoUnresolvedJoin ==
  cmd.op = "JoinChannel" => \A i \in 1..Len(cmd.sent) : cmd.sent[i].id # <<>>

\* C13: when the caller calls UpdateChannels twice in a row and the server's
\* lists did not change since the first call began, both caches hold after the
\* second call what they held after the first
C13_UpdateChannelsTwice ==
  (/\ cmd.op = "UpdateChannels" /\ cmd.ret = "done"
   /\ cmd.before # None
   /\ srv.changes = cmd.since) => cmd.refreshed = cmd.before

C13_Witness ==
  /\ cmd.op = "UpdateChannels" /\ cmd.ret = "done"
  /\ cmd.before # None
  /\ srv.changes = cmd.since
  /\ Len(cmd.refreshed[1][1][1]) > 0
  /\ Len(cmd.refreshed[1][2][1]) > 0

\* C14: no thread ever panics: whatever the backend answers to a fetch and
\* whichever user or channel a post names, no crash state is reached
C14_NeverCrashes == \A t \in Threads : pc[t] # "crashed"

\* the frame a message's Raw points to, as it is now
Deref(p) == IF p = None THEN ZeroMessage ELSE rmsg

\* C15: a message that was pushed stays what it was: the raw frame it refers to
\* is still the frame it was built from
C15_PushedUnchanged ==
  \A i \in 1..Len(Pushed) : Deref(Pushed[i].Raw).seq = Pushed[i].frame

C17_OtherActions ==
  (pc["recv"] = "push" /\ rc.last = "ok" /\ rmsg.Action # "posted") =>
     /\ msg = [NoMsg EXCEPT !.Raw = Some("rmsg"), !.Team = TeamName, !.frame = rmsg.seq]
     /\ norm = NoPost
     /\ gcn = NoCall
     /\ \A i \in 1..Len(Pushed) : Pushed[i].frame # msg.frame

C17_Witness ==
  /\ pc["recv"] = "push" /\ rc.last = "ok" /\ rmsg.Action = "typing"
  /\ rmsg.post # None
  /\ msg.Post = None /\ msg.Team = TeamName

\* C18: WsReceiver never reads from a handle on which a read has failed
C18_NoReadOnFailedHandle == pc["recv"] = "read" => m.WsClient \notin conns.dead

\* C19: when Login returns an error, the user, the team, the user map, both
\* channel caches and the stream handle are what they were when it was called
C19_FailedLoginKeeps ==
  lg.status = "err" =>
     /\ m.User = lg.before[1].User
     /\ m.Team = lg.before[1].Team
     /\ m.Users = lg.before[1].Users
     /\ m.Channels = lg.before[1].Channels
     /\ m.MoreChannels = lg.before[1].MoreChannels
     /\ m.WsClient = lg.before[1].WsClient

C19_Witness ==
  /\ lg.status = "err" /\ lg.caller = "recv"
  /\ m.User # None /\ m.Channels # None /\ m.WsClient # 0
  /\ m.Client # lg.before[1].Client

\* C20: after the first Login, every request of a command is sent with a token
C20_AlwaysAuthenticated == \A i \in 1..Len(cmd.sent) : cmd.sent[i].token # <<>>

====
